---- MODULE Spec2Model ----
(***************************************************************************)
(* Model of apps/users/forms.py: the validation and save steps of          *)
(* UserDeleteForm, UserRegisterForm, UserEditForm and                      *)
(* BlacklistedUsernameAddForm, run as request-scoped validate-then-save    *)
(* passes against one requesting account.                                  *)
(*                                                                         *)
(* Python values: None is <<>>, any other value v is <<v>>.  A dict is a   *)
(* function whose DOMAIN is its set of keys.  Text of the bulk usernames   *)
(* field is a sequence of one-character strings; every other text value    *)
(* is a TLA+ string.                                                       *)
(***************************************************************************)
EXTENDS Integers, Sequences, FiniteSets, TLC

VARIABLES user, files, dirs, queue, req, res

vars == <<user, files, dirs, queue, req, res>>

(***************************************************************************)
(* Bounds and program constants                                            *)
(***************************************************************************)
\* longest text submitted in the bulk usernames field
MaxLen == 4
\* most resize jobs waiting in the task queue
MaxQueue == 2
\* max_length of every password field
max_length == 255
\* settings.MAX_PHOTO_UPLOAD_SIZE, scaled down: a photo's size is counted in
\* chunks
MAX_PHOTO_UPLOAD_SIZE == 2

None == <<>>
Some(v) == <<v>>

\* a submitted text of max_length + 1 characters
TooLong == "x * 256"
Passwords == {"pw1", "pw2"}
SubmittedPasswords == {None} \cup {Some(s) : s \in Passwords \cup {"", TooLong}}
Usernames == {"alice", "bob", "admin"}
Blacklist == {"admin"}
picture_dir == "userpics/0"
picture_path == "userpics/0/1.png"
Unconverted(path) == path \o "__unconverted"
ContentTypes == {"image/png", "image/jpeg", "image/gif"}
PhotoSizes == 1..(MAX_PHOTO_UPLOAD_SIZE + 1)
Photos == [content_type : ContentTypes, size : PhotoSizes]
Chars == {"a", "b", " ", "\n", "\r"}
Whitespace == {" ", "\n", "\r"}
linesep == <<"\n">>

StrLen(s) == IF s = TooLong THEN max_length + 1 ELSE Len(s)

(***************************************************************************)
(* dicts                                                                   *)
(***************************************************************************)
EmptyDict == [k \in {} |-> None]
Put(d, k, v) == [x \in DOMAIN d \cup {k} |-> IF x = k THEN v ELSE d[x]]
Del(d, k) == [x \in DOMAIN d \ {k} |-> d[x]]
Get(d, k) == IF k \in DOMAIN d THEN d[k] ELSE None

Truthy(o) == o # None /\ o # Some("")

(***************************************************************************)
(* A form in the middle of full_clean: the cleaned_data dict being built,  *)
(* _errors, the calls made so far in order, the exception that ended the   *)
(* pass ("" while none has), and the cleaned_data attribute as _clean_form *)
(* leaves it.                                                              *)
(***************************************************************************)
NewForm ==
    [data |-> EmptyDict, errors |-> EmptyDict, log |-> <<>>, exc |-> "",
     cleaned_data |-> None]

NON_FIELD_ERRORS == "__all__"

\* forms.CharField(max_length=255, required=...).clean(value)
CharField(value, required) ==
    IF value = None \/ value = Some("")
    THEN IF required THEN [error |-> "This field is required.", value |-> None]
         ELSE [error |-> "", value |-> Some("")]
    ELSE IF StrLen(value[1]) > max_length
         THEN [error |-> "Ensure this value has at most 255 characters.",
               value |-> None]
         ELSE [error |-> "", value |-> value]

\* forms.BooleanField(required=True).clean(value)
BooleanField(value) ==
    IF value = Some(TRUE) THEN [error |-> "", value |-> Some(TRUE)]
    ELSE [error |-> "This field is required.", value |-> None]

\* forms.CharField(widget=Textarea).clean(value), required, no max_length
TextField(value) ==
    IF value = None \/ value = Some(<<>>)
    THEN [error |-> "This field is required.", value |-> None]
    ELSE [error |-> "", value |-> value]

\* except ValidationError in _clean_fields: the field gets the error and
\* leaves cleaned_data
FieldError(f, name, msg) ==
    [f EXCEPT !.errors = Put(f.errors, name, <<msg>>), !.data = Del(f.data, name)]

\* field.clean(value) followed by cleaned_data[name] = value
CleanField(f, name, r) ==
    IF r.error # "" THEN FieldError(f, name, r.error)
    ELSE [f EXCEPT !.data = Put(f.data, name, r.value)]

Called(f, what) == [f EXCEPT !.log = Append(f.log, what)]

\* amouser.check_password(raw) against the stored credential
check_password(u, raw) == raw # None /\ raw[1] = u.password

\* BlacklistedUsername.blocked(name)
blocked(name) == name # None /\ name[1] \in Blacklist

(***************************************************************************)
(* UserDeleteForm                                                          *)
(***************************************************************************)
\* raise forms.ValidationError(msg) inside clean_<name>
RaiseInField(f, name, msg) ==
    FieldError(Called(f, "raise ValidationError"), name, msg)

\* raise forms.ValidationError(msg) inside clean, caught by _clean_form
RaiseInForm(f, msg) ==
    [Called(f, "raise ValidationError") EXCEPT
         !.errors = Put(f.errors, NON_FIELD_ERRORS, <<msg>>)]

\* return value from clean_<name>: cleaned_data[name] = value
ReturnInField(f, name, value) == [f EXCEPT !.data = Put(f.data, name, value)]

\* the check with its sense inverted
UserDeleteForm_clean_password_inverted(f, u) ==
    LET f1 == Called(f, "check_password")
    IN  IF check_password(u, f.data["password"])
        THEN RaiseInField(f1, "password", "Wrong password entered!")
        ELSE ReturnInField(f1, "password", None)

UserDeleteForm_clean_password(f, u) ==
    LET f1 == Called(f, "check_password")
    IN  IF ~check_password(u, f.data["password"])
        THEN RaiseInField(f1, "password", "Wrong password entered!")
        ELSE ReturnInField(f1, "password", None)

\* the warning without the raise
UserDeleteForm_clean_warn_only(f, u) ==
    IF u.is_developer
    THEN [Called(f, "log.warning[Tampering]") EXCEPT !.cleaned_data = None]
    ELSE [f EXCEPT !.cleaned_data = None]

UserDeleteForm_clean(f, u) ==
    IF u.is_developer
    THEN RaiseInForm(Called(f, "log.warning[Tampering]"), "")
    ELSE [f EXCEPT !.cleaned_data = None]

UserDeleteForm_full_clean(post, u) ==
    LET f0 == NewForm
        f1 == CleanField(f0, "password", CharField(post.password, TRUE))
        f2 == IF "password" \in DOMAIN f1.data
              THEN UserDeleteForm_clean_password(f1, u) ELSE f1
        f3 == CleanField(f2, "confirm", BooleanField(post.confirm))
    IN  UserDeleteForm_clean([f3 EXCEPT !.cleaned_data = Some(f3.data)], u)

is_valid(f) == f.exc = "" /\ DOMAIN f.errors = {}

(***************************************************************************)
(* UserRegisterForm                                                        *)
(***************************************************************************)
\* the blacklist looked up and its answer ignored
UserRegisterForm_clean_username_unchecked(f) ==
    ReturnInField(Called(f, "blocked"), "username", f.data["username"])

UserRegisterForm_clean_username(f) ==
    LET name == f.data["username"]
    IN  IF blocked(name)
        THEN RaiseInField(Called(f, "blocked"), "username",
                          "This username is invalid.")
        ELSE ReturnInField(Called(f, "blocked"), "username", name)

UserRegisterForm_clean(f) ==
    LET p1 == Get(f.data, "password")
        p2 == Get(f.data, "password2")
    IN  IF p1 # p2
        THEN [f EXCEPT
                 !.errors = Put(f.errors, "password2",
                                <<"The passwords did not match.">>),
                 !.data = IF Truthy(p2) THEN Del(f.data, "password2")
                          ELSE f.data]
        ELSE f

\* _clean_form: self.cleaned_data = self.clean()
ReturnData(f) == IF f.exc = "" THEN [f EXCEPT !.cleaned_data = Some(f.data)] ELSE f

UsernameField(f, post) ==
    LET f1 == CleanField(f, "username", CharField(post.username, TRUE))
    IN  IF "username" \in DOMAIN f1.data
        THEN UserRegisterForm_clean_username(f1) ELSE f1

UserRegisterForm_full_clean(post) ==
    LET f1 == UsernameField(NewForm, post)
        f2 == CleanField(f1, "password", CharField(post.password, TRUE))
        f3 == CleanField(f2, "password2", CharField(post.password2, TRUE))
    IN  ReturnData(UserRegisterForm_clean(f3))

(***************************************************************************)
(* UserEditForm                                                            *)
(***************************************************************************)
\* the old password never asked for
UserEditForm_clean_unchecked(f, u) == UserRegisterForm_clean(f)

\* the old password checked on every pass
UserEditForm_clean_always(f, u) ==
    IF "oldpassword" \notin DOMAIN f.data
    THEN [f EXCEPT !.exc = "KeyError"]
    ELSE LET f1 == Called(f, "check_password")
         IN  IF ~check_password(u, f.data["oldpassword"])
             THEN UserRegisterForm_clean(
                      [f1 EXCEPT
                          !.errors = Put(f.errors, "oldpassword",
                                         <<"Wrong password entered!">>),
                          !.data = Del(f.data, "oldpassword")])
             ELSE UserRegisterForm_clean(f1)

UserEditForm_clean(f, u) ==
    LET p1 == Get(f.data, "password")
        p2 == Get(f.data, "password2")
    IN  IF Truthy(p1) \/ Truthy(p2)
        THEN IF "oldpassword" \notin DOMAIN f.data
             THEN [f EXCEPT !.exc = "KeyError"]
             ELSE LET f1 == Called(f, "check_password")
                  IN  IF ~check_password(u, f.data["oldpassword"])
                      THEN UserRegisterForm_clean(
                               [f1 EXCEPT
                                   !.errors = Put(f.errors, "oldpassword",
                                                  <<"Wrong password entered!">>),
                                   !.data = Del(f.data, "oldpassword")])
                      ELSE UserRegisterForm_clean(f1)
        ELSE UserRegisterForm_clean(f)

\* the size limit exclusive
UserEditForm_clean_photo_exclusive(f) ==
    LET photo == f.data["photo"]
    IN  IF photo = None
        THEN ReturnInField(f, "photo", None)
        ELSE IF photo[1].content_type \notin {"image/png", "image/jpeg"}
        THEN RaiseInField(f, "photo", "Images must be either PNG or JPG.")
        ELSE IF photo[1].size >= MAX_PHOTO_UPLOAD_SIZE
        THEN RaiseInField(f, "photo", "Please use images smaller than %dMB.")
        ELSE ReturnInField(f, "photo", photo)

UserEditForm_clean_photo(f) ==
    LET photo == f.data["photo"]
    IN  IF photo = None
        THEN ReturnInField(f, "photo", None)
        ELSE IF photo[1].content_type \notin {"image/png", "image/jpeg"}
        THEN RaiseInField(f, "photo", "Images must be either PNG or JPG.")
        ELSE IF photo[1].size > MAX_PHOTO_UPLOAD_SIZE
        THEN RaiseInField(f, "photo", "Please use images smaller than %dMB.")
        ELSE ReturnInField(f, "photo", photo)

\* forms.FileField(required=False).clean(value, initial)
FileField(value) == [error |-> "", value |-> value]

UserEditForm_full_clean(post, u) ==
    LET f1 == UsernameField(NewForm, post)
        f2 == CleanField(f1, "oldpassword", CharField(post.oldpassword, FALSE))
        f3 == CleanField(f2, "password", CharField(post.password, FALSE))
        f4 == CleanField(f3, "password2", CharField(post.password2, FALSE))
        f5 == UserEditForm_clean_photo(
                  CleanField(f4, "photo", FileField(post.photo)))
    IN  ReturnData(UserEditForm_clean(f5, u))

\* photo.chunks(): the upload's bytes in order, one per chunk
chunks(photo) == [i \in 1..photo.size |-> i]

\* The world UserEditForm.save acts on: the profile record in the database,
\* the files and directories on disk, the task queue, and the calls made.
World(u, fs, ds, q) == [user |-> u, files |-> fs, dirs |-> ds, queue |-> q,
                        log |-> <<>>]

WLog(w, what) == [w EXCEPT !.log = Append(w.log, what)]

\* the file handed over without being closed
WriteChunks_unclosed(w, path, cs) ==
    LET opened == [WLog(w, "open") EXCEPT
                      !.files = Put(w.files, path, [content |-> <<>>, open |-> TRUE])]
        Written[n \in 0..Len(cs)] ==
            IF n = 0 THEN opened
            ELSE [WLog(Written[n - 1], "write") EXCEPT
                     !.files[path].content = Append(Written[n - 1].files[path].content, cs[n])]
    IN  Written[Len(cs)]

\* fh = open(path, 'w'); for chunk in photo.chunks(): fh.write(chunk); fh.close()
WriteChunks(w, path, cs) ==
    LET opened == [WLog(w, "open") EXCEPT
                      !.files = Put(w.files, path, [content |-> <<>>, open |-> TRUE])]
        Written[n \in 0..Len(cs)] ==
            IF n = 0 THEN opened
            ELSE [WLog(Written[n - 1], "write") EXCEPT
                     !.files[path].content = Append(Written[n - 1].files[path].content, cs[n])]
        closed == [WLog(Written[Len(cs)], "close") EXCEPT !.files[path].open = FALSE]
    IN  closed

\* tasks.resize_photo.delay(src, dst)
delay(w, src, dst) ==
    [WLog(w, "resize_photo.delay") EXCEPT
        !.queue = Append(w.queue, [src |-> src, dst |-> dst])]

\* u.set_password(raw)
set_password(u, raw) == [u EXCEPT !.password = raw]

\* super(UserEditForm, self).save(commit=False): the instance with the
\* cleaned model fields assigned
ModelForm_save(u, data) == [u EXCEPT !.username = data["username"][1]]

UserEditForm_save(f, w) ==
    LET data == f.data
        u0 == ModelForm_save(w.user, data)
        photo == data["photo"]
        tmp_destination == Unconverted(picture_path)
        w1 == IF picture_dir \in w.dirs THEN w
              ELSE [WLog(w, "makedirs") EXCEPT !.dirs = w.dirs \cup {picture_dir}]
        w2 == IF photo # None
              THEN delay(WriteChunks(w1, tmp_destination, chunks(photo[1])),
                         tmp_destination, picture_path)
              ELSE w
        u1 == IF photo # None THEN [u0 EXCEPT !.picture_type = "image/png"] ELSE u0
        u2 == IF Truthy(data["password"])
              THEN set_password(u1, data["password"][1]) ELSE u1
        w3 == IF Truthy(data["password"])
              THEN WLog(WLog(w2, "set_password"), "log.info") ELSE w2
    IN  [WLog(WLog(w3, "log.debug"), "u.save") EXCEPT !.user = u2]

(***************************************************************************)
(* BlacklistedUsernameAddForm                                              *)
(***************************************************************************)
RECURSIVE SplitFrom(_, _, _)
\* str.splitlines(): rest is the text still to scan, cur the line being
\* read, acc the lines found; "\r\n" is one line break
SplitFrom(rest, cur, acc) ==
    IF rest = <<>> THEN IF cur # <<>> THEN Append(acc, cur) ELSE acc
    ELSE IF Head(rest) = "\n" THEN SplitFrom(Tail(rest), <<>>, Append(acc, cur))
    ELSE IF Head(rest) = "\r"
         THEN IF Len(rest) > 1 /\ rest[2] = "\n"
              THEN SplitFrom(Tail(Tail(rest)), <<>>, Append(acc, cur))
              ELSE SplitFrom(Tail(rest), <<>>, Append(acc, cur))
    ELSE SplitFrom(Tail(rest), Append(cur, Head(rest)), acc)

splitlines(s) == SplitFrom(s, <<>>, <<>>)

RECURSIVE lstrip(_)
lstrip(s) == IF s # <<>> /\ Head(s) \in Whitespace THEN lstrip(Tail(s)) ELSE s

RECURSIVE rstrip(_)
rstrip(s) ==
    IF s # <<>> /\ s[Len(s)] \in Whitespace
    THEN rstrip(SubSeq(s, 1, Len(s) - 1)) ELSE s

\* str.strip()
strip(s) == rstrip(lstrip(s))

RECURSIVE join(_, _)
\* sep.join(lines)
join(sep, lines) ==
    IF lines = <<>> THEN <<>>
    ELSE IF Len(lines) = 1 THEN lines[1]
    ELSE lines[1] \o sep \o join(sep, Tail(lines))

\* the lines stripped but the blank ones kept
StrippedNonBlank_keep_blank(lines) == [i \in 1..Len(lines) |-> strip(lines[i])]

\* [s.strip() for s in lines if s.strip()]
StrippedNonBlank(lines) ==
    LET stripped == [i \in 1..Len(lines) |-> strip(lines[i])]
    IN  SelectSeq(stripped, LAMBDA l : l # <<>>)

BlacklistedUsernameAddForm_clean(f) ==
    LET data1 == IF "usernames" \in DOMAIN f.data
                 THEN Put(f.data, "usernames",
                          Some(join(linesep,
                                    StrippedNonBlank(
                                        splitlines(f.data["usernames"][1])))))
                 ELSE f.data
        f1 == [f EXCEPT !.data = data1]
    IN  IF "usernames" \notin DOMAIN data1 \/ data1["usernames"] = Some(<<>>)
        THEN [f1 EXCEPT
                 !.errors = Put(f.errors, "usernames",
                     <<"Please enter at least one username to blacklist.">>)]
        ELSE f1

BlacklistedUsernameAddForm_full_clean(post) ==
    LET f1 == CleanField(NewForm, "usernames", TextField(post.usernames))
    IN  ReturnData(BlacklistedUsernameAddForm_clean(f1))

(***************************************************************************)
(* The requests                                                            *)
(***************************************************************************)
RECURSIVE Texts(_)
Texts(n) ==
    IF n = 0 THEN {<<>>}
    ELSE LET shorter == Texts(n - 1)
         IN  shorter \cup {Append(t, c) : t \in {x \in shorter : Len(x) = n - 1},
                                          c \in Chars}

Idle == req = None

Init ==
    /\ user \in [password : Passwords, is_developer : BOOLEAN,
                 username : {"alice"}, picture_type : {""}]
    /\ files = EmptyDict
    /\ dirs = {}
    /\ queue = <<>>
    /\ req = None
    /\ res = None

Request(form, post) == Some([form |-> form, post |-> post, user |-> user])

Response(f, saved, log) == Some([f |-> f, saved |-> saved, log |-> log])

UserDeleteFormPost ==
    /\ Idle
    /\ \E password \in SubmittedPasswords, confirm \in {None, Some(TRUE)} :
          LET post == [password |-> password, confirm |-> confirm]
          IN  /\ req' = Request("UserDeleteForm", post)
              /\ res' = Response(UserDeleteForm_full_clean(post, user), FALSE, <<>>)
    /\ UNCHANGED <<user, files, dirs, queue>>

UserRegisterFormPost ==
    /\ Idle
    /\ \E username \in {None} \cup {Some(n) : n \in Usernames},
          password \in SubmittedPasswords, password2 \in SubmittedPasswords :
          LET post == [username |-> username, password |-> password,
                       password2 |-> password2]
          IN  /\ req' = Request("UserRegisterForm", post)
              /\ res' = Response(UserRegisterForm_full_clean(post), FALSE, <<>>)
    /\ UNCHANGED <<user, files, dirs, queue>>

UserEditFormPost ==
    /\ Idle
    /\ Len(queue) < MaxQueue
    /\ \E username \in {Some(n) : n \in Usernames},
          oldpassword \in SubmittedPasswords,
          password \in SubmittedPasswords, password2 \in SubmittedPasswords,
          photo \in {None} \cup {Some(ph) : ph \in Photos} :
          LET post == [username |-> username, oldpassword |-> oldpassword,
                       password |-> password, password2 |-> password2,
                       photo |-> photo]
              f == UserEditForm_full_clean(post, user)
              w == UserEditForm_save(f, World(user, files, dirs, queue))
          IN  /\ req' = Request("UserEditForm", post)
              /\ IF is_valid(f)
                 THEN /\ res' = Response(f, TRUE, w.log)
                      /\ user' = w.user
                      /\ files' = w.files
                      /\ dirs' = w.dirs
                      /\ queue' = w.queue
                 ELSE /\ res' = Response(f, FALSE, <<>>)
                      /\ UNCHANGED <<user, files, dirs, queue>>

BlacklistedUsernameAddFormPost ==
    /\ Idle
    /\ \E usernames \in {None} \cup {Some(t) : t \in Texts(MaxLen)} :
          LET post == [usernames |-> usernames]
          IN  /\ req' = Request("BlacklistedUsernameAddForm", post)
              /\ res' = Response(BlacklistedUsernameAddForm_full_clean(post),
                                 FALSE, <<>>)
    /\ UNCHANGED <<user, files, dirs, queue>>

\* the response is sent and the request's form is discarded
Respond ==
    /\ ~Idle
    /\ req' = None
    /\ res' = None
    /\ UNCHANGED <<user, files, dirs, queue>>

\* the task queue's worker runs the oldest resize_photo job
resize_photo ==
    /\ queue # <<>>
    /\ LET job == Head(queue)
       IN  files' = Put(files, job.dst,
                        [content |-> files[job.src].content, open |-> FALSE])
    /\ queue' = Tail(queue)
    /\ UNCHANGED <<user, dirs, req, res>>

Next ==
    \/ UserDeleteFormPost
    \/ UserRegisterFormPost
    \/ UserEditFormPost
    \/ BlacklistedUsernameAddFormPost
    \/ Respond
    \/ resize_photo

Spec == Init /\ [][Next]_vars

(***************************************************************************)
(* Properties                                                              *)
(***************************************************************************)
Handled(form) == req # None /\ req[1].form = form
Post == req[1].post
Amouser == req[1].user
Form == res[1].f

WrongPassword == <<"Wrong password entered!">>
Mismatch == <<"The passwords did not match.">>

\* the value a password field of the handled form leaves in cleaned_data
\* (None when the field failed its own validation)
Cleaned(value) == CharField(value, req[1].form = "UserRegisterForm").value

\* C1: for every (password, password2) that clean reads from cleaned_data,
\* missing or empty included, UserRegisterForm.clean and UserEditForm.clean
\* record the mismatch error on password2 exactly when the two differ.
C1_MismatchIffDiffer ==
    (Handled("UserRegisterForm") \/ Handled("UserEditForm")) =>
        (Get(Form.errors, "password2") = Mismatch
            <=> Cleaned(Post.password) # Cleaned(Post.password2))

\* C7: no clean step of any of the four forms ends in an exception that is
\* not a validation error.
C7_NoUncaughtException == res # None => Form.exc = ""

\* C2: when UserDeleteForm.clean_password runs, the password field gets
\* 'Wrong password entered!' exactly when the submitted password fails
\* check_password against the requesting account, and a matching password
\* leaves no error on the field.
C2_WrongPasswordIffCheckFails ==
    Handled("UserDeleteForm") =>
        LET ran == CharField(Post.password, TRUE).error = ""
            passes == check_password(Amouser, Post.password)
        IN  /\ Get(Form.errors, "password") = WrongPassword <=> (ran /\ ~passes)
            /\ (ran /\ passes) => "password" \notin DOMAIN Form.errors

C2_Witness ==
    /\ Handled("UserDeleteForm")
    /\ Get(Form.errors, "password") = WrongPassword
    /\ Post.password \in {Some(p) : p \in Passwords}

Index(seq, x) == CHOOSE i \in 1..Len(seq) : seq[i] = x
Occurs(seq, x) == \E i \in 1..Len(seq) : seq[i] = x
Count(seq, x) == Cardinality({i \in 1..Len(seq) : seq[i] = x})

\* C3: for a developer account UserDeleteForm never validates: whatever was
\* submitted, the pass ends with a form-level error, and the tampering
\* warning is logged before the rejection is raised.
C3_DeveloperAlwaysRejected ==
    (Handled("UserDeleteForm") /\ Amouser.is_developer) =>
        /\ ~is_valid(Form)
        /\ NON_FIELD_ERRORS \in DOMAIN Form.errors
        /\ Occurs(Form.log, "log.warning[Tampering]")
        /\ Form.log[Len(Form.log)] = "raise ValidationError"
        /\ Index(Form.log, "log.warning[Tampering]") < Len(Form.log)

C3_Witness ==
    /\ Handled("UserDeleteForm")
    /\ Amouser.is_developer
    /\ check_password(Amouser, Post.password)
    /\ Post.confirm = Some(TRUE)
    /\ DOMAIN Form.errors = {NON_FIELD_ERRORS}

\* C4: clean_photo returns the upload unchanged exactly when its content
\* type is PNG or JPEG and its size is at most MAX_PHOTO_UPLOAD_SIZE; any
\* other upload gets an error, the type error before the size error; no
\* upload gets no error.
C4_PhotoAccepted ==
    Handled("UserEditForm") =>
        IF Post.photo = None
        THEN "photo" \notin DOMAIN Form.errors /\ Form.data["photo"] = None
        ELSE LET ph == Post.photo[1]
                 typeOk == ph.content_type \in {"image/png", "image/jpeg"}
                 sizeOk == ph.size <= MAX_PHOTO_UPLOAD_SIZE
             IN  /\ ("photo" \notin DOMAIN Form.errors) <=> (typeOk /\ sizeOk)
                 /\ (typeOk /\ sizeOk) => Get(Form.data, "photo") = Post.photo
                 /\ ~typeOk => Get(Form.errors, "photo")
                                   = <<"Images must be either PNG or JPG.">>
                 /\ (typeOk /\ ~sizeOk) => Get(Form.errors, "photo")
                                   = <<"Please use images smaller than %dMB.">>

C4_Witness ==
    /\ Handled("UserEditForm")
    /\ Post.photo # None
    /\ Post.photo[1].size = MAX_PHOTO_UPLOAD_SIZE
    /\ Get(Form.data, "photo") = Post.photo

\* C5: clean_username fails the username field exactly when
\* BlacklistedUsername.blocked reports the name, and otherwise returns the
\* submitted name unchanged.
C5_BlockedIffInvalid ==
    ((Handled("UserRegisterForm") \/ Handled("UserEditForm"))
        /\ Post.username # None) =>
        /\ Get(Form.errors, "username") = <<"This username is invalid.">>
               <=> blocked(Post.username)
        /\ ~blocked(Post.username) =>
               /\ "username" \notin DOMAIN Form.errors
               /\ Get(Form.data, "username") = Post.username

C5_Witness ==
    /\ Handled("UserEditForm")
    /\ blocked(Post.username)
    /\ "username" \in DOMAIN Form.errors

NonWs(t) == SelectSeq(t, LAMBDA c : c \notin Whitespace)
LineBreaks == {"\n", "\r"}

\* position i of t holds a space with visible text before and after it on
\* the same line
InnerSpace(t, i) ==
    /\ t[i] = " "
    /\ \E j \in 1..(i - 1) :
          t[j] \notin Whitespace /\ \A k \in j..i : t[k] \notin LineBreaks
    /\ \E j \in (i + 1)..Len(t) :
          t[j] \notin Whitespace /\ \A k \in i..j : t[k] \notin LineBreaks

InnerSpaces(t) == Cardinality({i \in 1..Len(t) : InnerSpace(t, i)})

tmp_destination == Unconverted(picture_path)

\* a step in which UserEditForm validated and save ran
SaveStep ==
    /\ req = None /\ req' # None
    /\ req'[1].form = "UserEditForm"
    /\ res'[1].saved

\* C8: when save runs with a photo, every chunk is written to
\* picture_path + '__unconverted' and the file closed before the resize job
\* is enqueued with (that path, picture_path); the job is enqueued once, it
\* is still pending when save returns, and the profile is saved after the
\* enqueue.
C8_WriteCloseEnqueueSave ==
    [][(SaveStep /\ req'[1].post.photo # None) =>
        LET log == res'[1].log
            ph == req'[1].post.photo[1]
        IN  /\ files'[tmp_destination] = [content |-> chunks(ph), open |-> FALSE]
            /\ Count(log, "open") = 1 /\ Count(log, "close") = 1
            /\ Count(log, "write") = ph.size
            /\ \A i \in 1..Len(log) :
                  log[i] = "write" =>
                     /\ Index(log, "open") < i
                     /\ i < Index(log, "close")
            /\ Count(log, "resize_photo.delay") = 1
            /\ Index(log, "close") < Index(log, "resize_photo.delay")
            /\ queue' = Append(queue, [src |-> tmp_destination,
                                       dst |-> picture_path])
            /\ Count(log, "u.save") = 1
            /\ Index(log, "resize_photo.delay") < Index(log, "u.save")
            /\ log[Len(log)] = "u.save"]_vars

C8_Witness ==
    /\ Handled("UserEditForm")
    /\ res[1].saved
    /\ Post.photo # None
    /\ Post.photo[1].size = 2
    /\ Len(queue) = 2
    /\ queue[2] = [src |-> tmp_destination, dst |-> picture_path]
    /\ files[tmp_destination].content = <<1, 2>>

\* C9: the stored password changes only in a UserEditForm pass whose
\* oldpassword passed check_password against the requesting account and
\* whose password equals password2, and then to the submitted password.
C9_PasswordChangeNeedsOldPassword ==
    [][user'.password # user.password =>
        /\ SaveStep
        /\ check_password(user, req'[1].post.oldpassword)
        /\ req'[1].post.password = req'[1].post.password2
        /\ Some(user'.password) = req'[1].post.password]_vars

C9_Witness ==
    /\ Handled("UserEditForm")
    /\ res[1].saved
    /\ user.password # Amouser.password
    /\ Post.oldpassword = Some(Amouser.password)

Empty(value) == value = None \/ value = Some("")

\* C10: save leaves the stored password alone when the cleaned new password
\* is empty; with no photo submitted it writes no file, enqueues no job and
\* leaves picture_type alone; with password and password2 both empty, clean
\* does not consult oldpassword and puts no error on it.
C10_Frame ==
    [][(req = None /\ req' # None /\ req'[1].form = "UserEditForm") =>
        LET post == req'[1].post
            f == res'[1].f
        IN  /\ (res'[1].saved /\ Empty(f.data["password"])) =>
                  user'.password = user.password
            /\ post.photo = None =>
                  /\ files' = files /\ dirs' = dirs /\ queue' = queue
                  /\ user'.picture_type = user.picture_type
                  /\ ~Occurs(res'[1].log, "open")
                  /\ ~Occurs(res'[1].log, "resize_photo.delay")
            /\ (Empty(post.password) /\ Empty(post.password2)) =>
                  /\ ~Occurs(f.log, "check_password")
                  /\ Get(f.errors, "oldpassword") # WrongPassword]_vars

C10_Witness ==
    /\ Handled("UserEditForm")
    /\ res[1].saved
    /\ Post.photo = None
    /\ Empty(Post.password) /\ Empty(Post.password2)
    /\ Post.oldpassword \in {Some(p) : p \in Passwords}
    /\ ~check_password(Amouser, Post.oldpassword)
    /\ files # EmptyDict

====
